---- MODULE Spec2Model ----
(***************************************************************************)
(* A model of the cooperative task runtime of cpp_coroutine_test:          *)
(*   - the coroutine frames, promises and awaiters of the four programs    *)
(*     (work, factorial, hello/world, Promise<T>/Task<T>::Awaiter),        *)
(*   - the owning Task handles,                                            *)
(*   - the Loop scheduler (ready queue and timer heap).                    *)
(* The native call stack of resume() invocations is explicit, so that      *)
(* symmetric transfer (one activation, its current frame replaced) and a   *)
(* nested callee.resume() (a new activation) are told apart.               *)
(***************************************************************************)
EXTENDS Integers, Sequences, FiniteSets, TLC

VARIABLES
  prog,      \* which program runs: "work", "fact", "hello", "chain", ...
  depth,     \* number of frames of the call chain (factorial's n)
  deep,      \* what the deepest frame of a "chain" does: return or throw
  frames,    \* frame id -> the coroutine frame (promise and suspension state)
  stack,     \* native stack of active resume() invocations, top last
  resumes,   \* number of top-level resume() calls the driver has issued
  outcome,   \* "ok", "terminate" (exception left resume()), "ub"
  \* the Task handles
  taskKind,  \* which Task type the handles are of
  tasks,     \* Task object -> its life ("unborn", "live", "dead") and handle
  heap,      \* coroutine frame -> allocated, alive, number of destroy() calls
  \* the Loop
  ready_tasks, \* Loop::ready_tasks, front first
  timers,      \* Loop::timers, the heap's underlying vector
  now,         \* steady_clock::now()
  runPc,       \* "idle" (run() not called), "pass", "timers", "returned"
  pending,     \* entries of the pass's snapshot not yet resumed
  snapshot,    \* history: the tickets of the entries the pass started with
  lframes,     \* the frames the Loop's entries refer to
  resched,     \* how often a resumed frame has suspended again so far
  tickets,     \* history: entries pushed so far on ready_tasks / timers
  resumedLog,  \* history: the entries run() resumed in this pass, in order
  fired        \* history: the timer entries run() moved last, in order

coroVars == <<prog, depth, deep, frames, stack, resumes, outcome>>
ownVars == <<taskKind, tasks, heap>>
loopVars == <<ready_tasks, timers, now, runPc, pending, snapshot, lframes,
              resched, tickets, resumedLog, fired>>
vars == <<coroVars, ownVars, loopVars>>

----------------------------------------------------------------------------
(* Bounds *)

MaxDepth == 5

(* Program constants *)

\* std::noop_coroutine(): the default of Promise::previous
Noop == 0
\* a null coroutine_handle (other.coroutine = nullptr, CalleeAwaiter caller)
NullHandle == -1

\* the programs of the repository, "chain" (Task<int> coroutines over
\* Promise<T>) and "raise" (a body that throws, over the Promise of the
\* factorial program)
Programs == {"work", "fact", "hello", "chain", "raise"}
\* bodies that use the protocol against its contract: one awaits the same
\* Task a second time, after its frame has completed; one awaits a Task
\* that is empty (moved from)
Misuses == {"twice", "empty"}
\* the Task and CalleeAwaiter of the factorial program with a callee that
\* yields before it returns, under the driver loop of the hello program
Mixed == {"relay"}
Errors == {"E1", "E2"}
Frames == 1..MaxDepth

----------------------------------------------------------------------------
(* std::optional<int> and std::exception_ptr: empty or one element *)

None == << >>
Some(v) == <<v>>

\* std::optional::value_or
value_or(o, d) == IF o = None THEN d ELSE o[1]

----------------------------------------------------------------------------
(* The coroutine bodies *)

Yield(v) == [op |-> "yield", kind |-> "const", v |-> v, e |-> ""]
YieldLocal == [op |-> "yield", kind |-> "local", v |-> 0, e |-> ""]
Create == [op |-> "create", kind |-> "", v |-> 0, e |-> ""]
Await == [op |-> "await", kind |-> "", v |-> 0, e |-> ""]
Return(v) == [op |-> "return", kind |-> "const", v |-> v, e |-> ""]
ReturnMul == [op |-> "return", kind |-> "mul", v |-> 0, e |-> ""]
Throw(x) == [op |-> "throw", kind |-> "", v |-> 0, e |-> x]

\* Task work(): co_yield 1; co_yield 2; co_return 3;
work == <<Yield(1), Yield(2), Return(3)>>

\* Task factorial(int n)
factorial(n) ==
  IF n <= 1 THEN <<Return(1)>> ELSE <<Create, Await, ReturnMul>>

\* WorldTask world(): co_yield 1; co_yield 2; co_return 42;
world == <<Yield(1), Yield(2), Return(42)>>

\* Task hello(): co_await world_task; co_yield val1; co_yield 100; co_return 200;
hello == <<Create, Await, YieldLocal, Yield(100), Return(200)>>

\* A chain of Task<int> coroutines over Promise<T>: frame k awaits frame k-1
\* and returns k * its result; the deepest frame returns or throws.
chain(d, k) ==
  IF k <= 1
  THEN IF d.throws THEN <<Throw(d.e)>> ELSE <<Return(d.v)>>
  ELSE <<Create, Await, ReturnMul>>

\* Task sub_task = factorial(1); co_await sub_task; co_await sub_task;
twice == <<Create, Await, Await, ReturnMul>>

\* Task other(std::move(sub_task)); co_await sub_task;
moved_from == <<Await, ReturnMul>>

Body(p, d, k) ==
  CASE p = "work" -> work
    [] p = "fact" -> factorial(k)
    [] p = "hello" -> IF k = 2 THEN hello ELSE world
    [] p = "chain" -> chain(d, k)
    [] p = "raise" -> chain(d, k)
    [] p = "twice" -> IF k = 2 THEN twice ELSE factorial(k)
    [] p = "relay" -> IF k = 2 THEN factorial(k) ELSE world
    [] p = "empty" -> moved_from

----------------------------------------------------------------------------
(* The promise types and awaiters of the four programs *)

\* Promise::yield_value returns Awaiter{} (RepeatAwaiter in the first
\* program) or std::suspend_always
YieldAwaiter(p) == IF p = "work" THEN "repeat" ELSE "always"

\* Promise::final_suspend returns std::suspend_always (first program) or
\* PreviousAwaiter{previous}
FinalAwaiter(p) == IF p = "work" THEN "always" ELSE "previous"

\* Promise::unhandled_exception: throw; or exception = current_exception()
UnhandledException(p) == IF p = "chain" THEN "store" ELSE "rethrow"

\* (mutant) every Task awaited by a symmetric transfer into the callee
CalleeAwaiterKind_symmetric(p) == "symmetric"

\* operator co_await: WorldTask::CalleeAwaiter resumes the callee in a loop,
\* CalleeAwaiter and Task<T>::Awaiter transfer symmetrically
CalleeAwaiterKind(p) == IF p = "hello" THEN "loop" ELSE "symmetric"

\* std::coroutine_handle::done(): suspended at the final suspend point
\* (noop_coroutine().done() is always false)
Done(fr, h) == h \in Frames /\ fr[h].st = "final"

\* a frame that resume() may legally be called on
Resumable(fr, h) ==
  h \in Frames /\ fr[h].alive /\ fr[h].st \in {"init", "yield", "await"}

NewFrame ==
  [st |-> "none", pc |-> 1, value |-> None, exception |-> None,
   previous |-> Noop, sub |-> NullHandle, local |-> 0, inflight |-> None,
   alive |-> FALSE, destroys |-> 0,
   attaches |-> 0,  \* history: the number of writes to previous
   awaits |-> 0,    \* history: the number of suspensions at a co_await
   wakes |-> 0,     \* history: the number of resumptions from a co_await
   mark |-> 0]      \* history: where the frame was at main's last resume()

\* (mutant) initial_suspend() returning suspend_never: the body starts in
\* the coroutine call and runs to its first co_yield
initial_suspend_never(fr, f) ==
  [fr EXCEPT ![f] = [NewFrame EXCEPT !.st = "yield", !.pc = 2,
                                     !.value = Some(0), !.alive = TRUE]]

\* A coroutine call: the frame is allocated with its promise, and
\* initial_suspend() returns suspend_always
initial_suspend(fr, f) ==
  [fr EXCEPT ![f] = [NewFrame EXCEPT !.st = "init", !.alive = TRUE]]

\* coroutine.destroy()
destroy(fr, f) ==
  [fr EXCEPT ![f].alive = FALSE, ![f].destroys = @ + 1]

\* ~Task(): if (coroutine) coroutine.destroy();
TaskDtor(fr, h) == IF h /= NullHandle THEN destroy(fr, h) ELSE fr

\* (mutant) a body whose own frame is freed with its locals when it returns
DestroyLocals_and_frame(fr, f) ==
  destroy([TaskDtor(fr, fr[f].sub) EXCEPT ![f].sub = NullHandle], f)

\* leaving the body's scope destroys the local Task (sub_task, world_task)
DestroyLocals(fr, f) ==
  [TaskDtor(fr, fr[f].sub) EXCEPT ![f].sub = NullHandle]

\* (mutant) a final awaiter that never climbs back to the caller
PreviousAwaiter_never_climbs(fr, previous) == Noop

\* (mutant) a final awaiter that returns previous without testing done()
PreviousAwaiter_always_climbs(fr, previous) ==
  IF previous /= NullHandle THEN previous ELSE Noop

\* PreviousAwaiter::await_suspend
PreviousAwaiter_await_suspend(fr, previous) ==
  IF previous /= NullHandle /\ ~Done(fr, previous) THEN previous ELSE Noop

\* RepeatAwaiter::await_suspend
RepeatAwaiter_await_suspend(fr, coroutine) ==
  IF ~Done(fr, coroutine) THEN coroutine ELSE Noop

\* CalleeAwaiter::await_ready (always false) and
\* WorldTask::CalleeAwaiter::await_ready (callee ? callee.done() : false)
CalleeAwaiter_await_ready(p, fr, callee) ==
  IF CalleeAwaiterKind(p) = "loop"
  THEN IF callee /= NullHandle THEN Done(fr, callee) ELSE FALSE
  ELSE FALSE

\* Promise::return_value / Promise<T>::return_value: the value is stored
return_value(fr, f, v) == [fr EXCEPT ![f].value = Some(v)]

\* Promise<T>::unhandled_exception: exception = std::current_exception()
unhandled_exception(fr, f, x) == [fr EXCEPT ![f].exception = Some(x)]

\* Task::value(): coroutine.promise().get_value()
Task_value(fr, h) == fr[h].value

\* (mutant) an await_suspend that does not link the callee to its caller
CalleeAwaiter_await_suspend_no_link(fr, callee, caller) ==
  [frames |-> fr, next |-> callee]

\* CalleeAwaiter::await_suspend and Task<T>::Awaiter::await_suspend:
\* callee.promise().previous = caller; return callee;
CalleeAwaiter_await_suspend(fr, callee, caller) ==
  [frames |-> [fr EXCEPT ![callee].previous = caller,
                         ![callee].attaches = @ + 1],
   next |-> callee]

\* (mutant) a result() that forgets the stored exception
PromiseT_result_no_rethrow(pr) ==
  [raised |-> FALSE, e |-> "", value |-> pr.value]

\* Promise<T>::result(): rethrows the stored exception, else the value
PromiseT_result(pr) ==
  IF pr.exception /= None
  THEN [raised |-> TRUE, e |-> pr.exception[1], value |-> None]
  ELSE [raised |-> FALSE, e |-> "", value |-> pr.value]

\* await_resume of the awaiter frame f is suspended on:
\* CalleeAwaiter: callee.promise().get_value().value_or(0);
\* Task<T>::Awaiter: *(coroutine.promise().result())
await_resume(p, fr, f) ==
  LET callee == fr[fr[f].sub] IN
  IF p = "chain"
  THEN LET r == PromiseT_result(callee) IN
       IF r.raised
       THEN [fr EXCEPT ![f].st = "run", ![f].inflight = Some(r.e)]
       ELSE [fr EXCEPT ![f].st = "run", ![f].local = value_or(r.value, 0)]
  ELSE [fr EXCEPT ![f].st = "run", ![f].local = value_or(callee.value, 0)]

\* the frame continues from its suspension point
Enter(p, fr, f) ==
  IF fr[f].st = "await"
  THEN [await_resume(p, fr, f) EXCEPT ![f].wakes = @ + 1]
  ELSE [fr EXCEPT ![f].st = "run"]

----------------------------------------------------------------------------
(* The native stack *)

Top == stack[Len(stack)]
Pop == SubSeq(stack, 1, Len(stack) - 1)
Running == stack /= << >> /\ outcome = "ok" /\ Top.mode = "body"
Cur == Top.f
Instr == Body(prog, deep, Cur)[frames[Cur].pc]
TopFrame == IF prog = "work" THEN 1 ELSE depth

GarbageValues == {7}

\* undefined behaviour on frame f (resume of a frame that is complete,
\* running or destroyed): the process may die, or go on with f clobbered
Undefined(fr, f) ==
  /\ outcome' = "ub"
  /\ stack' = << >>
  /\ frames' \in {fr} \cup {[fr EXCEPT ![f].value = Some(g)] : g \in GarbageValues}

\* the activation on top of the stack goes on with handle h: resuming
\* noop_coroutine returns to whoever called resume(); resuming a frame
\* replaces the activation's current frame (symmetric transfer)
Transfer(fr, h) ==
  IF h = Noop
  THEN frames' = fr /\ stack' = Pop /\ outcome' = outcome
  ELSE IF Resumable(fr, h)
  THEN /\ frames' = Enter(prog, fr, h)
       /\ stack' = [stack EXCEPT ![Len(stack)] = [f |-> h, mode |-> "body"]]
       /\ outcome' = outcome
  ELSE Undefined(fr, h)

\* the coroutine reaches its final suspend point
final_suspend(fr, f) ==
  LET fr1 == [fr EXCEPT ![f].st = "final"] IN
  IF FinalAwaiter(prog) = "previous"
  THEN Transfer(fr1, PreviousAwaiter_await_suspend(fr1, fr1[f].previous))
  ELSE Transfer(fr1, Noop)

----------------------------------------------------------------------------
(* Init *)

DeepChoices ==
  {[throws |-> FALSE, e |-> "", v |-> 1]}
    \cup {[throws |-> TRUE, e |-> x, v |-> 0] : x \in Errors}

IdleCoro ==
  /\ prog = "none"
  /\ depth = 0
  /\ deep = [throws |-> FALSE, e |-> "", v |-> 1]
  /\ frames = [f \in Frames |-> NewFrame]
  /\ stack = << >>
  /\ resumes = 0
  /\ outcome = "ok"

IdleOwn ==
  /\ taskKind = "none"
  /\ tasks = << >>
  /\ heap = << >>

IdleLoop ==
  /\ ready_tasks = << >>
  /\ timers = << >>
  /\ now = 0
  /\ runPc = "idle"
  /\ pending = 0
  /\ snapshot = << >>
  /\ lframes = << >>
  /\ resched = 0
  /\ tickets = 0
  /\ resumedLog = << >>
  /\ fired = << >>

InitWith(programs) ==
  /\ IdleOwn
  /\ IdleLoop
  /\ prog \in programs
  /\ depth \in (IF prog \in {"work", "empty"} THEN {1}
                ELSE IF prog \in {"hello", "twice", "relay"} THEN {2}
                ELSE 1..MaxDepth)
  /\ deep \in (IF prog = "chain" THEN DeepChoices
               ELSE IF prog = "raise"
               THEN {d \in DeepChoices : d.throws}
               ELSE {[throws |-> FALSE, e |-> "", v |-> 1]})
  \* Task task = work() / factorial(5) / hello(): the top frame is created
  /\ frames = initial_suspend([f \in Frames |-> NewFrame], TopFrame)
  /\ stack = << >>
  /\ resumes = 0
  /\ outcome = "ok"

InitCoro == InitWith(Programs)

InitApi == InitWith(Programs \cup Misuses \cup Mixed)

----------------------------------------------------------------------------
(* The driver: main() *)

\* while (!task.coroutine.done()) task.coroutine.resume();  (work, hello)
\* task.coroutine.resume();                                  (factorial)
DriverResume ==
  /\ stack = << >>
  /\ outcome = "ok"
  /\ ~Done(frames, TopFrame)
  /\ prog \notin {"work", "hello", "relay"} => resumes = 0
  /\ resumes' = resumes + 1
  /\ frames' = [Enter(prog, frames, TopFrame)
                  EXCEPT ![TopFrame].mark = frames[TopFrame].pc]
  /\ stack' = <<[f |-> TopFrame, mode |-> "body"]>>
  /\ UNCHANGED <<prog, depth, deep, outcome, ownVars, loopVars>>

----------------------------------------------------------------------------
(* The steps of the running frame *)

\* co_yield v: promise.yield_value(v), then the awaiter it returns
StepYield ==
  /\ Running
  /\ frames[Cur].inflight = None
  /\ Instr.op = "yield"
  /\ LET f == Cur
         v == IF Instr.kind = "local" THEN frames[f].local ELSE Instr.v
         fr1 == [frames EXCEPT ![f].value = Some(v), ![f].st = "yield",
                               ![f].pc = @ + 1]
     IN IF YieldAwaiter(prog) = "repeat"
        THEN Transfer(fr1, RepeatAwaiter_await_suspend(fr1, f))
        ELSE Transfer(fr1, Noop)
  /\ UNCHANGED <<prog, depth, deep, resumes, ownVars, loopVars>>

\* Task sub_task = factorial(n - 1); / auto world_task = world();
StepCreate ==
  /\ Running
  /\ frames[Cur].inflight = None
  /\ Instr.op = "create"
  /\ LET f == Cur IN
     frames' = [initial_suspend(frames, f - 1) EXCEPT ![f].sub = f - 1,
                                                      ![f].pc = @ + 1]
  /\ UNCHANGED <<prog, depth, deep, stack, resumes, outcome, ownVars, loopVars>>

\* co_await sub_task: await_ready, await_suspend
StepAwait ==
  /\ Running
  /\ frames[Cur].inflight = None
  /\ Instr.op = "await"
  /\ LET f == Cur
         callee == frames[f].sub
     IN IF CalleeAwaiter_await_ready(prog, frames, callee)
        THEN \* no suspension: await_resume at once
             /\ frames' = await_resume(prog, [frames EXCEPT ![f].pc = @ + 1], f)
             /\ UNCHANGED <<stack, outcome>>
        ELSE LET fr0 == [frames EXCEPT ![f].st = "await", ![f].pc = @ + 1,
                                       ![f].awaits = @ + 1]
                 s == CalleeAwaiter_await_suspend(fr0, callee, f)
             IN IF callee \notin Frames \/ ~frames[callee].alive
                THEN \* callee.promise() through a null or dangling handle
                     Undefined(fr0, f)
                ELSE
                IF CalleeAwaiterKind(prog) = "loop"
                THEN \* callee.promise().previous = caller; await_suspend
                     \* goes on in this activation
                     /\ frames' = [fr0 EXCEPT ![callee].previous = f,
                                              ![callee].attaches = @ + 1]
                     /\ stack' = [stack EXCEPT ![Len(stack)].mode = "loop"]
                     /\ UNCHANGED outcome
                ELSE \* return callee;
                     Transfer(s.frames, s.next)
  /\ UNCHANGED <<prog, depth, deep, resumes, ownVars, loopVars>>

\* WorldTask::CalleeAwaiter::await_suspend:
\*   while (!callee.done()) callee.resume();  return std::noop_coroutine();
LoopIter ==
  /\ stack /= << >>
  /\ outcome = "ok"
  /\ Top.mode = "loop"
  /\ LET callee == frames[Top.f].sub IN
     IF ~Done(frames, callee)
     THEN IF Resumable(frames, callee)
          THEN /\ frames' = Enter(prog, frames, callee)
               /\ stack' = Append(stack, [f |-> callee, mode |-> "body"])
               /\ UNCHANGED outcome
          ELSE Undefined(frames, callee)
     ELSE Transfer(frames, Noop)
  /\ UNCHANGED <<prog, depth, deep, resumes, ownVars, loopVars>>

\* co_return v: return_value(v), the locals go out of scope, final_suspend()
StepReturn ==
  /\ Running
  /\ frames[Cur].inflight = None
  /\ Instr.op = "return"
  /\ LET f == Cur
         v == IF Instr.kind = "mul" THEN f * frames[f].local ELSE Instr.v
         fr1 == return_value(frames, f, v)
     IN final_suspend(DestroyLocals(fr1, f), f)
  /\ UNCHANGED <<prog, depth, deep, resumes, ownVars, loopVars>>

\* an exception leaves the body: the locals are unwound, then
\* unhandled_exception(), then final_suspend()
StepThrow ==
  /\ Running
  /\ frames[Cur].inflight /= None \/ Instr.op = "throw"
  /\ LET f == Cur
         x == IF frames[f].inflight /= None THEN frames[f].inflight[1]
              ELSE Instr.e
         fr1 == DestroyLocals([frames EXCEPT ![f].inflight = None], f)
     IN IF UnhandledException(prog) = "store"
        THEN final_suspend(unhandled_exception(fr1, f, x), f)
        ELSE \* throw; the exception leaves resume(), nothing catches it
             /\ frames' = [fr1 EXCEPT ![f].st = "final"]
             /\ stack' = << >>
             /\ outcome' = "terminate"
  /\ UNCHANGED <<prog, depth, deep, resumes, ownVars, loopVars>>

NextCoro ==
  \/ DriverResume
  \/ StepYield
  \/ StepCreate
  \/ StepAwait
  \/ LoopIter
  \/ StepReturn
  \/ StepThrow

SpecCoro == InitCoro /\ [][NextCoro]_vars

\* the one thread goes on as long as the program has a step to take
FairCoro == SpecCoro /\ WF_vars(NextCoro)

----------------------------------------------------------------------------
(* A driver that does not test done() before resume():                     *)
(* std::coroutine_handle::resume() has no check of its own, resuming a     *)
(* coroutine suspended at its final suspend point is undefined.            *)

DriverResumeDone ==
  /\ stack = << >>
  /\ outcome = "ok"
  /\ Done(frames, TopFrame)
  /\ resumes' = resumes + 1
  /\ Undefined(frames, TopFrame)
  /\ UNCHANGED <<prog, depth, deep, ownVars, loopVars>>

LateValues == {9}

\* task.coroutine.promise().return_value(v) on a frame that is complete:
\* return_value has no test of its own
ReturnValueDone ==
  /\ stack = << >>
  /\ outcome = "ok"
  /\ Done(frames, TopFrame)
  /\ frames[TopFrame].alive
  /\ \E v \in LateValues : frames' = return_value(frames, TopFrame, v)
  /\ frames' /= frames
  /\ UNCHANGED <<prog, depth, deep, stack, resumes, outcome, ownVars, loopVars>>

NextApi ==
  \/ NextCoro
  \/ DriverResumeDone
  \/ ReturnValueDone

SpecApi == InitApi /\ [][NextApi]_vars

----------------------------------------------------------------------------
(* The Task handles.  "MoveOnly" is the Task of the first program and of   *)
(* the factorial program: copy deleted, move constructor, move assignment. *)
(* "Implicit" is Task and WorldTask of the hello program: a destructor     *)
(* that destroys the frame and nothing else declared, so the compiler      *)
(* supplies the copy constructor and the copy assignment, and a move is a  *)
(* copy.                                                                   *)

MaxTasks == 3
MaxOwnFrames == 2

TaskKinds == {"MoveOnly", "Implicit"}
TaskIds == 1..MaxTasks
OwnFrames == 1..MaxOwnFrames

Live(ts, t) == ts[t].life = "live"

\* Task(Task &&other) : coroutine(other.coroutine) { other.coroutine = nullptr; }
\* without a declared move constructor the copy constructor is chosen
Task_move_ctor(kind, ts, t, o) ==
  IF kind = "MoveOnly"
  THEN [ts EXCEPT ![t] = [life |-> "live", coroutine |-> ts[o].coroutine],
                  ![o].coroutine = NullHandle]
  ELSE [ts EXCEPT ![t] = [life |-> "live", coroutine |-> ts[o].coroutine]]

\* the implicitly declared copy constructor: memberwise copy of the handle
Task_copy_ctor(ts, t, o) ==
  [ts EXCEPT ![t] = [life |-> "live", coroutine |-> ts[o].coroutine]]

\* coroutine.destroy() on the handle value h
heap_destroy(hp, h) ==
  [hp EXCEPT ![h].alive = FALSE, ![h].destroys = @ + 1]

\* Task &operator=(Task &&other): the tasks and the heap after the call
Task_move_assign(kind, ts, hp, t, o) ==
  IF kind = "MoveOnly"
  THEN IF t /= o
       THEN [tasks |-> [ts EXCEPT ![t].coroutine = ts[o].coroutine,
                                  ![o].coroutine = NullHandle],
             heap |-> IF ts[t].coroutine /= NullHandle
                      THEN heap_destroy(hp, ts[t].coroutine) ELSE hp]
       ELSE [tasks |-> ts, heap |-> hp]
  ELSE \* the implicit copy assignment: the old frame is not destroyed
       [tasks |-> [ts EXCEPT ![t].coroutine = ts[o].coroutine], heap |-> hp]

\* ~Task(): if (coroutine) coroutine.destroy();
Task_dtor(ts, hp, t) ==
  IF ts[t].coroutine /= NullHandle
  THEN heap_destroy(hp, ts[t].coroutine) ELSE hp

InitOwn ==
  /\ IdleCoro
  /\ IdleLoop
  /\ taskKind \in TaskKinds
  /\ tasks = [t \in TaskIds |-> [life |-> "unborn", coroutine |-> NullHandle]]
  /\ heap = [f \in OwnFrames |->
               [allocated |-> FALSE, alive |-> FALSE, destroys |-> 0]]

\* Task task = work();  the coroutine call allocates the frame and
\* get_return_object() hands its handle to Task(handle)
TaskCreate(t) ==
  /\ tasks[t].life = "unborn"
  /\ \E f \in OwnFrames :
       /\ ~heap[f].allocated
       /\ \A g \in OwnFrames : g < f => heap[g].allocated
       /\ heap' = [heap EXCEPT ![f].allocated = TRUE, ![f].alive = TRUE]
       /\ tasks' = [tasks EXCEPT ![t] = [life |-> "live", coroutine |-> f]]
  /\ UNCHANGED <<taskKind, coroVars, loopVars>>

\* Task t(std::move(o));
TaskMoveConstruct(t, o) ==
  /\ tasks[t].life = "unborn"
  /\ Live(tasks, o)
  /\ tasks' = Task_move_ctor(taskKind, tasks, t, o)
  /\ UNCHANGED <<taskKind, heap, coroVars, loopVars>>

\* Task t(o);  ill-formed for the Task types that delete the copy
TaskCopyConstruct(t, o) ==
  /\ taskKind = "Implicit"
  /\ tasks[t].life = "unborn"
  /\ Live(tasks, o)
  /\ tasks' = Task_copy_ctor(tasks, t, o)
  /\ UNCHANGED <<taskKind, heap, coroVars, loopVars>>

\* t = std::move(o);  also with t and o the same object
TaskMoveAssign(t, o) ==
  /\ Live(tasks, t)
  /\ Live(tasks, o)
  /\ LET r == Task_move_assign(taskKind, tasks, heap, t, o) IN
     tasks' = r.tasks /\ heap' = r.heap
  /\ UNCHANGED <<taskKind, coroVars, loopVars>>

\* the Task object goes out of scope
TaskDestruct(t) ==
  /\ Live(tasks, t)
  /\ heap' = Task_dtor(tasks, heap, t)
  /\ tasks' = [tasks EXCEPT ![t].life = "dead"]
  /\ UNCHANGED <<taskKind, coroVars, loopVars>>

NextOwn ==
  \/ \E t \in TaskIds : TaskCreate(t)
  \/ \E t, o \in TaskIds : TaskMoveConstruct(t, o)
  \/ \E t, o \in TaskIds : TaskCopyConstruct(t, o)
  \/ \E t, o \in TaskIds : TaskMoveAssign(t, o)
  \/ \E t \in TaskIds : TaskDestruct(t)

SpecOwn == InitOwn /\ [][NextOwn]_vars

Owners(f) == {t \in TaskIds : Live(tasks, t) /\ tasks[t].coroutine = f}

\* C4: each frame is owned by at most one live Task, is destroyed at most
\* once, and is not destroyed while a live Task still holds it; a copy
\* never makes a second owner.
C4_ExclusiveOwnership ==
  \A f \in OwnFrames :
    /\ Cardinality(Owners(f)) <= 1
    /\ heap[f].destroys <= 1
    /\ (heap[f].allocated /\ ~heap[f].alive) => Owners(f) = {}

----------------------------------------------------------------------------
(* The Loop: ready_tasks is a std::queue, timers a std::priority_queue     *)
(* over a vector with std::greater<>, that is TimerEntry::operator>.       *)
(* The heap is the binary heap of std::push_heap / std::pop_heap.          *)
(* An entry's ticket (the count of pushes before it) is history, read by   *)
(* no operation of the Loop.                                               *)

MaxLoopFrames == 3
MaxReschedules == 1
MaxTime == 1

LoopFrameIds == 1..MaxLoopFrames
Times == 0..MaxTime

\* (mutant) the comparison turned around
TimerEntry_less(a, b) == a.expire_time < b.expire_time

\* TimerEntry::operator>
TimerEntry_greater(a, b) == a.expire_time > b.expire_time

\* (mutant) the handle is put at the front of the queue
add_task_front(q, e) == <<e>> \o q

\* Loop::add_task: ready_tasks.push(handle)
add_task(q, e) == Append(q, e)

\* std::__push_heap: the value climbs from the hole while its parent
\* compares greater (indices from 0, as in the library)
RECURSIVE push_heap_sift(_, _, _, _)
push_heap_sift(h, holeIndex, topIndex, value) ==
  LET parent == (holeIndex - 1) \div 2 IN
  IF holeIndex > topIndex /\ TimerEntry_greater(h[parent + 1], value)
  THEN push_heap_sift([h EXCEPT ![holeIndex + 1] = h[parent + 1]],
                      parent, topIndex, value)
  ELSE [h EXCEPT ![holeIndex + 1] = value]

\* std::__adjust_heap, its loop: the hole sinks to the bottom
RECURSIVE adjust_heap_sink(_, _, _)
adjust_heap_sink(h, holeIndex, len) ==
  IF holeIndex < (len - 1) \div 2
  THEN LET right == 2 * (holeIndex + 1)
           child == IF TimerEntry_greater(h[right + 1], h[right])
                    THEN right - 1 ELSE right
       IN adjust_heap_sink([h EXCEPT ![holeIndex + 1] = h[child + 1]],
                           child, len)
  ELSE [h |-> h, hole |-> holeIndex]

\* std::__adjust_heap
adjust_heap(h, len, value) ==
  LET s == adjust_heap_sink(h, 0, len)
      only == 2 * (s.hole + 1) - 1
      t == IF len % 2 = 0 /\ s.hole = (len - 2) \div 2
           THEN [h |-> [s.h EXCEPT ![s.hole + 1] = s.h[only + 1]],
                 hole |-> only]
           ELSE s
  IN push_heap_sift(t.h, t.hole, 0, value)

\* std::priority_queue::push: c.push_back(x); std::push_heap(...)
priority_queue_push(h, x) ==
  push_heap_sift(Append(h, x), Len(h), 0, x)

\* std::priority_queue::top
priority_queue_top(h) == h[1]

\* std::priority_queue::pop: std::pop_heap(...); c.pop_back()
priority_queue_pop(h) ==
  LET n == Len(h) IN
  IF n > 1
  THEN SubSeq(adjust_heap([h EXCEPT ![n] = h[1]], n - 1, h[n]), 1, n - 1)
  ELSE << >>

\* Loop::add_timer: timers.push(TimerEntry{time, handle})
add_timer(h, time, handle, seq) ==
  priority_queue_push(h, [expire_time |-> time, handle |-> handle, seq |-> seq])

\* (mutant) entries that own their frame: removing one destroys the frame
entry_release_destroys(hp, handle) == heap_destroy(hp, handle)

\* an entry leaves ready_tasks or timers (pop, or the container is
\* destroyed): it holds a std::coroutine_handle<>, whose destructor is
\* trivial, so nothing happens to the frame
entry_release(hp, handle) == hp

\* all entries of a container are released, front first
RECURSIVE release_all(_, _)
release_all(hp, q) ==
  IF q = << >> THEN hp
  ELSE release_all(entry_release(hp, Head(q).handle), Tail(q))

ReadyEntry(handle, ticket) == [handle |-> handle, ticket |-> ticket]

TicketsOf(q) == [i \in 1..Len(q) |-> q[i].ticket]

\* (mutant) every timer entry counts as due
TimerDue_any(heapOfTimers, t) == heapOfTimers /= << >>

\* run(), step 2: the top timer entry is due
TimerDue(heapOfTimers, t) ==
  heapOfTimers /= << >> /\ priority_queue_top(heapOfTimers).expire_time <= t

\* run(), step 2 with no entry due: the time the driver may wait,
\* earliest_expiry - now, clamped to zero
IdleTime(heapOfTimers, t) ==
  LET d == priority_queue_top(heapOfTimers).expire_time - t
  IN IF d < 0 THEN 0 ELSE d

\* (mutant) a loop that only looks at the ready queue
RunFinished_ready_only(ready, heapOfTimers) == ready = << >>

\* run(): "repeats until both structures are empty"
RunFinished(ready, heapOfTimers) == ready = << >> /\ heapOfTimers = << >>

\* the frames not scheduled so far; handles are opaque, and the frames are
\* numbered in the order in which they are first scheduled
NewFrames(lf) == {g \in LoopFrameIds : lf[g] = "new"}
NextNewFrame(lf, f) == f \in NewFrames(lf) /\ \A g \in NewFrames(lf) : f <= g

\* the frames the driver hands to the Loop are alive, each owned by a Task
\* of the driver
InitLoop ==
  /\ IdleCoro
  /\ taskKind = "MoveOnly"
  /\ tasks = [f \in LoopFrameIds |-> [life |-> "live", coroutine |-> f]]
  /\ heap = [f \in LoopFrameIds |->
               [allocated |-> TRUE, alive |-> TRUE, destroys |-> 0]]
  /\ ready_tasks = << >>
  /\ timers = << >>
  /\ now = 0
  /\ runPc = "idle"
  /\ pending = 0
  /\ snapshot = << >>
  /\ lframes = [f \in LoopFrameIds |-> "new"]
  /\ resched = 0
  /\ tickets = 0
  /\ resumedLog = << >>
  /\ fired = << >>

\* the driver, before run(): loop.add_task(handle)
Schedule(f) ==
  /\ runPc = "idle"
  /\ NextNewFrame(lframes, f)
  /\ ready_tasks' = add_task(ready_tasks, ReadyEntry(f, tickets))
  /\ tickets' = tickets + 1
  /\ lframes' = [lframes EXCEPT ![f] = "queued"]
  /\ UNCHANGED <<timers, now, runPc, pending, snapshot, resched, resumedLog,
                 fired, coroVars, ownVars>>

\* the driver, before run(): loop.add_timer(time, handle)
ScheduleAt(t, f) ==
  /\ runPc = "idle"
  /\ NextNewFrame(lframes, f)
  /\ timers' = add_timer(timers, t, f, tickets)
  /\ tickets' = tickets + 1
  /\ lframes' = [lframes EXCEPT ![f] = "timed"]
  /\ UNCHANGED <<ready_tasks, now, runPc, pending, snapshot, resched,
                 resumedLog, fired, coroVars, ownVars>>

\* run(): the snapshot of the pass that starts
NewPass(q) ==
  /\ runPc' = "pass"
  /\ pending' = Len(q)
  /\ snapshot' = TicketsOf(q)
  /\ resumedLog' = << >>

\* run() is called: the loop condition, then the snapshot of the first pass
RunStart ==
  /\ runPc = "idle"
  /\ IF RunFinished(ready_tasks, timers)
     THEN runPc' = "returned" /\ UNCHANGED <<pending, snapshot, resumedLog>>
     ELSE NewPass(ready_tasks)
  /\ UNCHANGED <<ready_tasks, timers, now, lframes, resched, tickets,
                 fired, coroVars, ownVars>>

\* what a resumed frame does before it suspends again or completes:
\* it may schedule a frame not scheduled so far (add_task), and then it
\* completes, or reschedules itself (add_task), or sleeps (add_timer)
FrameStep(f, other, what, t) ==
  LET q0 == Tail(ready_tasks)
      spawns == other /= 0
      q1 == IF spawns THEN add_task(q0, ReadyEntry(other, tickets))
            ELSE q0
      n1 == IF spawns THEN tickets + 1 ELSE tickets
      lf1 == IF spawns THEN [lframes EXCEPT ![other] = "queued"] ELSE lframes
  IN CASE what = "finish" ->
            /\ ready_tasks' = q1 /\ tickets' = n1 /\ timers' = timers
            /\ lframes' = [lf1 EXCEPT ![f] = "done"]
            /\ resched' = resched
       [] what = "again" ->
            /\ ready_tasks' = add_task(q1, ReadyEntry(f, n1))
            /\ tickets' = n1 + 1 /\ timers' = timers
            /\ lframes' = [lf1 EXCEPT ![f] = "queued"]
            /\ resched' = resched + 1
       [] what = "sleep" ->
            /\ ready_tasks' = q1 /\ tickets' = n1 + 1
            /\ timers' = add_timer(timers, t, f, n1)
            /\ lframes' = [lf1 EXCEPT ![f] = "timed"]
            /\ resched' = resched + 1

\* run(), step 1: the front entry of the snapshot is popped and resumed
RunResume ==
  /\ runPc = "pass"
  /\ pending > 0
  /\ LET e == Head(ready_tasks)
         f == e.handle
     IN /\ \E other \in {0} \cup {g \in LoopFrameIds : NextNewFrame(lframes, g)},
              what \in {"finish", "again", "sleep"},
              t \in Times :
              /\ resched >= MaxReschedules => what = "finish"
              /\ what /= "sleep" => t = 0
              /\ FrameStep(f, other, what, t)
        /\ resumedLog' = Append(resumedLog,
                                [handle |-> f, ticket |-> e.ticket])
        /\ heap' = entry_release(heap, f)
  /\ pending' = pending - 1
  /\ UNCHANGED <<now, runPc, snapshot, fired, coroVars, taskKind, tasks>>

\* run(), end of step 1: with entries pushed during the pass the next pass
\* starts; "if the ready queue is now empty" step 2 looks at the timers
RunEndPass ==
  /\ runPc = "pass"
  /\ pending = 0
  /\ IF ready_tasks = << >>
     THEN runPc' = "timers" /\ UNCHANGED <<pending, snapshot, resumedLog>>
     ELSE NewPass(ready_tasks)
  /\ fired' = << >>
  /\ UNCHANGED <<ready_tasks, timers, now, lframes, resched, tickets,
                 coroVars, ownVars>>

\* run(), step 2: a timer entry that is due is popped and its frame is
\* moved to the ready queue
RunMoveTimer ==
  /\ runPc = "timers"
  /\ TimerDue(timers, now)
  /\ LET e == priority_queue_top(timers)
     IN /\ ready_tasks' = add_task(ready_tasks, ReadyEntry(e.handle, tickets))
        /\ timers' = priority_queue_pop(timers)
        /\ fired' = Append(fired, [expire_time |-> e.expire_time,
                                   handle |-> e.handle, seq |-> e.seq])
        /\ lframes' = [lframes EXCEPT ![e.handle] = "queued"]
        /\ heap' = entry_release(heap, e.handle)
  /\ tickets' = tickets + 1
  /\ UNCHANGED <<now, runPc, pending, snapshot, resched, resumedLog,
                 coroVars, taskKind, tasks>>

\* run(), the loop condition after step 2: run() returns, or the next pass
\* starts; with nothing ready and a timer not yet due the driver waits
RunLoopTest ==
  /\ runPc = "timers"
  /\ ~TimerDue(timers, now)
  /\ IF RunFinished(ready_tasks, timers)
     THEN runPc' = "returned" /\ UNCHANGED <<pending, snapshot, resumedLog>>
     ELSE ready_tasks /= << >> /\ NewPass(ready_tasks)
  /\ UNCHANGED <<ready_tasks, timers, now, lframes, resched, tickets, fired,
                 coroVars, ownVars>>

\* the clock goes on; run() reads it in step 2 only, so the time that
\* passes during a pass is seen there
Tick ==
  /\ runPc = "timers"
  /\ ready_tasks = << >>
  /\ now < MaxTime
  /\ now' = now + 1
  /\ UNCHANGED <<ready_tasks, timers, runPc, pending, snapshot, lframes,
                 resched, tickets, resumedLog, fired, coroVars, ownVars>>

\* ~Loop() (implicit) before run(): ready_tasks and timers are destroyed
\* with their entries; the driver goes on with a new, empty Loop
LoopDestroy ==
  /\ runPc = "idle"
  /\ ready_tasks /= << >> \/ timers /= << >>
  /\ heap' = release_all(release_all(heap, ready_tasks), timers)
  /\ ready_tasks' = << >>
  /\ timers' = << >>
  /\ lframes' = [f \in LoopFrameIds |->
                   IF lframes[f] \in {"queued", "timed"} THEN "dropped"
                   ELSE lframes[f]]
  /\ UNCHANGED <<now, runPc, pending, snapshot, resched, tickets, resumedLog,
                 fired, coroVars, taskKind, tasks>>

\* run(), step 2 with nothing ready and no entry due: the driver waits for
\* the idle time run() has computed
RunWait ==
  /\ runPc = "timers"
  /\ ready_tasks = << >>
  /\ timers /= << >>
  /\ ~TimerDue(timers, now)
  /\ now' = now + IdleTime(timers, now)
  /\ UNCHANGED <<ready_tasks, timers, runPc, pending, snapshot, lframes,
                 resched, tickets, resumedLog, fired, coroVars, ownVars>>

NextLoop ==
  \/ \E f \in LoopFrameIds : Schedule(f)
  \/ \E t \in Times, f \in LoopFrameIds : ScheduleAt(t, f)
  \/ LoopDestroy
  \/ RunStart
  \/ RunResume
  \/ RunEndPass
  \/ RunMoveTimer
  \/ RunLoopTest
  \/ RunWait
  \/ Tick

SpecLoop == InitLoop /\ [][NextLoop]_vars

\* run() is scheduled as long as it has not returned, and time passes
FairLoop ==
  /\ SpecLoop
  /\ WF_vars(RunStart)
  /\ WF_vars(RunResume)
  /\ WF_vars(RunEndPass)
  /\ WF_vars(RunMoveTimer)
  /\ WF_vars(RunLoopTest)
  /\ WF_vars(Tick)

----------------------------------------------------------------------------
(* Claims on the call / return protocol *)

RECURSIVE Factorial(_)
Factorial(n) == IF n <= 1 THEN 1 ELSE n * Factorial(n - 1)

\* the driver is back in main() after its k-th resume()
AfterResume(k) == stack = << >> /\ resumes = k

\* C1: in the factorial chain of any depth N, when the one top-level
\* resume() has returned every frame of the chain is complete and the
\* outermost frame holds N! (120 for N = 5).
C1_SingleResumeComposes ==
  (prog = "fact" /\ AfterResume(1)) =>
    /\ outcome = "ok"
    /\ \A k \in 1..depth : frames[k].st = "final"
    /\ frames[depth].value = Some(Factorial(depth))

C1_Witness ==
  /\ prog = "fact" /\ AfterResume(1)
  /\ depth = 5
  /\ frames[5].value = Some(120)
  /\ frames[1].st = "final"

C3_YieldsOnePerResume ==
  prog = "work" =>
    /\ AfterResume(1) => frames[1].value = Some(1) /\ ~Done(frames, 1)
    /\ AfterResume(2) => frames[1].value = Some(2) /\ ~Done(frames, 1)
    /\ AfterResume(3) => frames[1].value = Some(3) /\ Done(frames, 1)
    /\ resumes < 3 => ~Done(frames, 1)

\* C5: resume() on a frame that is done is rejected: the call changes no
\* frame (no body step, result and completion flag as before) and the
\* program does not enter undefined behaviour.
C5_ResumeDoneRejected ==
  [][(stack = << >> /\ outcome = "ok" /\ Done(frames, TopFrame)
        /\ resumes' = resumes + 1)
       => (frames' = frames /\ outcome' = "ok")]_vars

----------------------------------------------------------------------------
(* Claims on the Loop *)

HandlesOf(q) == [i \in 1..Len(q) |-> q[i].handle]

Increasing(s) == \A i, j \in 1..Len(s) : i < j => s[i] < s[j]

\* a new pass has just been snapshot after timers were moved
JustFired ==
  runPc = "pass" /\ fired /= << >> /\ resumedLog = << >>
    /\ pending = Len(snapshot)

\* C6: the ready queue is FIFO: the entries run() has resumed in a pass and
\* the entries still queued are in the order of their add_task calls, so
\* frames scheduled A, B, C are resumed A, B, C and no two ready entries are
\* ever resumed in the inverse of the order in which they were queued.
C6_ReadyQueueFIFO ==
  Increasing(TicketsOf(resumedLog) \o TicketsOf(ready_tasks))

C6_Witness ==
  /\ runPc = "returned"
  /\ resched = 0
  /\ HandlesOf(resumedLog) = <<1, 2, 3>>
  /\ TicketsOf(resumedLog) = <<0, 1, 2>>

\* C7: the timer entries run() moves in one step leave the heap in
\* nondecreasing expiry order, whatever the order of their insertion; they
\* are queued for resumption in that order, and every entry left in the
\* heap expires later than each of them.
C7_TimersFireByExpiry ==
  /\ \A i, j \in 1..Len(fired) :
        i < j => fired[i].expire_time <= fired[j].expire_time
  /\ JustFired =>
        /\ HandlesOf(ready_tasks) = HandlesOf(fired)
        /\ \A i \in 1..Len(fired), k \in 1..Len(timers) :
              fired[i].expire_time < timers[k].expire_time

C7_Witness ==
  /\ JustFired
  /\ Len(fired) >= 2
  /\ fired[1].expire_time < fired[2].expire_time
  /\ fired[1].seq > fired[2].seq

\* C8: timer entries of the same expiry that run() moves in one step leave
\* the heap in the order in which add_timer inserted them.
C8_TimerTiesStable ==
  \A i, j \in 1..Len(fired) :
    (i < j /\ fired[i].expire_time = fired[j].expire_time)
      => fired[i].seq < fired[j].seq

\* C9: during a pass run() resumes exactly the entries of the snapshot taken
\* at the start of the pass, in their order and once each: the entries
\* resumed so far and the entries still to resume make up the snapshot, an
\* entry pushed during the pass is behind them, and no frame is resumed twice
\* in one pass.
C9_SnapshotDrain ==
  runPc = "pass" =>
    /\ Len(resumedLog) + pending = Len(snapshot)
    /\ pending <= Len(ready_tasks)
    /\ TicketsOf(resumedLog) \o TicketsOf(SubSeq(ready_tasks, 1, pending))
         = snapshot
    /\ \A i, j \in 1..Len(resumedLog) :
          i /= j => resumedLog[i].handle /= resumedLog[j].handle
    /\ \A i \in 1..Len(resumedLog), k \in 1..pending :
          resumedLog[i].handle /= ready_tasks[k].handle

C9_Witness ==
  /\ runPc = "pass"
  /\ pending = 1
  /\ Len(snapshot) = 2
  /\ Len(ready_tasks) = 3
  /\ ready_tasks[2].handle \notin {resumedLog[1].handle, ready_tasks[1].handle}
  /\ ready_tasks[3].handle = resumedLog[1].handle

\* C10: run() has returned only with the ready queue and the timer heap both
\* empty, and, every frame completing after finitely many resumes and the
\* clock passing every expiry, run() returns in the end and stays returned.
C10_RunReturnsWhenEmpty ==
  /\ [](runPc = "returned" => (ready_tasks = << >> /\ timers = << >>))
  /\ <>[](runPc = "returned")

C10_Witness ==
  /\ runPc = "returned"
  /\ \A f \in LoopFrameIds : lframes[f] = "done"
  /\ resched = MaxReschedules
  /\ now = MaxTime
  /\ tickets > MaxLoopFrames + MaxReschedules

----------------------------------------------------------------------------
(* Claims on errors, results and the frame's fields *)

NoValue == [raised |-> FALSE, e |-> "", value |-> None]

\* C11: an error raised in a frame's body is stored in the frame that
\* raised it and never leaves resume(): no run ends with the exception
\* propagating out of the top-level resume().
C11_ErrorsCaptured ==
  /\ outcome /= "terminate"
  /\ (deep.throws /\ Done(frames, 1)) => frames[1].exception = Some(deep.e)

C13_NoValueBeforeDone ==
  (stack = << >> /\ outcome = "ok" /\ ~Done(frames, TopFrame)) =>
    /\ PromiseT_result(frames[TopFrame]) = NoValue
    /\ Task_value(frames, TopFrame) = None

\* a frame that was created and has not been resumed yet
NotStarted(f) ==
  \/ f = TopFrame /\ resumes = 0
  \/ \E g \in Frames :
       /\ frames[g].sub = f /\ frames[g].st = "run"
       /\ Body(prog, deep, g)[frames[g].pc].op = "await"

\* C14: a frame that has been created and not resumed yet is suspended at
\* its initial suspend point: no step of its body has run, it is not done
\* and it stores no value and no error.
C14_CreatedSuspended ==
  \A f \in Frames :
    NotStarted(f) =>
      /\ frames[f].st = "init"
      /\ frames[f].pc = 1
      /\ ~Done(frames, f)
      /\ frames[f].value = None
      /\ frames[f].exception = None

C14_Witness ==
  /\ prog = "fact" /\ resumes = 1 /\ depth = 3
  /\ NotStarted(1) /\ frames[1].st = "init"
  /\ frames[3].st = "await"

\* C15: in every frame at most one of the value and the error is set, and
\* neither is set while the frame is not done.
C15_ResultErrorExclusive ==
  \A f \in Frames :
    frames[f].st /= "none" =>
      /\ ~(frames[f].value /= None /\ frames[f].exception /= None)
      /\ ~Done(frames, f) =>
            (frames[f].value = None /\ frames[f].exception = None)

----------------------------------------------------------------------------
(* Claims on the Call and the Return protocol *)

\* C16: the continuation reference (previous) of a frame is written at most
\* once over the frame's lifetime.
C16_ContinuationSetOnce ==
  \A f \in Frames : frames[f].attaches <= 1

\* the running frame is about to co_await its sub task
Awaits ==
  Running /\ frames[Cur].inflight = None /\ Instr.op = "await"

\* C17: a co_await on a Task whose frame is complete short-circuits: the
\* awaiting frame is not suspended and goes on in the same step with the
\* callee's stored value, the callee is left as it is (no continuation
\* attached, not resumed) and the activation stays where it is.
C17_AwaitCompleteShortCircuits ==
  [][(Awaits /\ Done(frames, frames[Cur].sub)) =>
       LET a == Cur
           b == frames[Cur].sub
       IN /\ outcome' = "ok"
          /\ stack' = stack
          /\ frames'[b] = frames[b]
          /\ frames'[a].st = "run"
          /\ frames'[a].local = value_or(frames[b].value, 0)]_vars

\* C18: completion is monotonic: a frame that is done is done in every
\* later state and its stored value and error never change; storing a
\* value in a frame that is complete fails.
C18_CompletionMonotonic ==
  [][outcome' = "ok" =>
       \A f \in Frames :
         Done(frames, f) =>
           /\ Done(frames', f)
           /\ frames'[f].value = frames[f].value
           /\ frames'[f].exception = frames[f].exception]_vars

\* C19: when frame A awaits, through CalleeAwaiter or Task<T>::Awaiter, a
\* Task whose frame B is not complete, the one step sets B's previous to A,
\* leaves A suspended at that co_await and puts B, from its last suspension
\* point, in A's place in the running activation; the ready queue is not
\* touched.
C19_CallTransfersIntoCallee ==
  [][(Awaits /\ CalleeAwaiterKind(prog) = "symmetric"
        /\ ~Done(frames, frames[Cur].sub)) =>
       LET a == Cur
           b == frames[Cur].sub
       IN /\ outcome' = "ok"
          /\ frames'[b].previous = a
          /\ frames'[a].st = "await"
          /\ frames'[a].pc = frames[a].pc + 1
          /\ stack' = [stack EXCEPT ![Len(stack)] = [f |-> b, mode |-> "body"]]
          /\ frames'[b].st = "run"
          /\ frames'[b].pc = frames[b].pc
          /\ ready_tasks' = ready_tasks]_vars

C19_Witness ==
  /\ prog = "chain" /\ depth = 3
  /\ Len(stack) = 1 /\ Top.f = 1
  /\ frames[1].st = "run" /\ frames[1].pc = 1
  /\ frames[1].previous = 2
  /\ frames[2].st = "await" /\ frames[2].previous = 3

\* C20: when the running frame completes and its previous is a frame that
\* is not done, the same step puts previous in its place in the running
\* activation, and previous goes on right behind the co_await it executed
\* on the completing frame.
C20_ReturnResumesContinuation ==
  [][(Running /\ frames[Cur].st = "run" /\ Done(frames', Cur)
        /\ outcome' = "ok"
        /\ frames[Cur].previous \in Frames
        /\ ~Done(frames, frames[Cur].previous)) =>
       LET b == Cur
           a == frames[Cur].previous
       IN /\ stack' = [stack EXCEPT ![Len(stack)] = [f |-> a, mode |-> "body"]]
          /\ frames[a].st = "await"
          /\ frames[a].sub = b
          /\ Body(prog, deep, a)[frames[a].pc - 1].op = "await"
          /\ frames'[a].st = "run"
          /\ frames'[a].pc = frames[a].pc]_vars

C20_Witness ==
  /\ prog = "fact" /\ depth = 3
  /\ Len(stack) = 1 /\ Top.f = 2
  /\ Done(frames, 1)
  /\ frames[2].st = "run" /\ frames[2].pc = 3 /\ frames[2].local = 1
  /\ frames[3].st = "await"

----------------------------------------------------------------------------
(* Claims on the ascent, on resumption and on the suspension points *)

\* the running frame reaches its final suspend point in this step, other
\* than by an exception that leaves through unhandled_exception()
Completes ==
  /\ Running
  /\ frames[Cur].st = "run"
  /\ Done(frames', Cur)
  /\ outcome' /= "terminate"

\* C21: a frame that completes with no continuation (previous is
\* noop_coroutine) or with a continuation that is done resumes no frame:
\* the top-level resume() returns to its caller, the completed frame stays
\* at its final suspend point and no other frame changes its suspension
\* state; a final awaiter asked about a done previous answers noop.
C21_NoContinuationReturnsToResumer ==
  /\ [](\A g \in Frames :
          (Done(frames, g) /\ frames[g].alive) =>
            PreviousAwaiter_await_suspend(frames, g) = Noop)
  /\ [][(Completes /\ (frames[Cur].previous \notin Frames
                        \/ Done(frames, frames[Cur].previous))) =>
          /\ outcome' = "ok"
          /\ stack' = << >>
          /\ frames'[Cur].st = "final"
          /\ \A g \in Frames \ {Cur} : frames'[g].st = frames[g].st]_vars

C21_Witness ==
  /\ prog = "fact" /\ depth = 3 /\ resumes = 1
  /\ stack = << >> /\ outcome = "ok"
  /\ Done(frames, 3) /\ frames[3].alive
  /\ frames[3].previous = Noop
  /\ frames[3].value = Some(6)

\* C22: the ascent never fails: for a previous that is the sentinel, a
\* live suspended frame or a live done frame, the final awaiter answers
\* noop or a frame that may be resumed, and every step in which a frame
\* reaches final_suspend() ends with the program in order, the activation
\* either returned or handed to previous.
C22_ReturnNeverFails ==
  /\ [](\A p \in Frames \cup {Noop, NullHandle} :
          (p \notin Frames \/ Resumable(frames, p)
             \/ (Done(frames, p) /\ frames[p].alive)) =>
            LET h == PreviousAwaiter_await_suspend(frames, p)
            IN h = Noop \/ Resumable(frames, h))
  /\ [][Completes =>
          /\ outcome' = "ok"
          /\ \/ stack' = Pop
             \/ stack' = [stack EXCEPT ![Len(stack)] =
                            [f |-> frames[Cur].previous, mode |-> "body"]]]_vars

C22_Witness ==
  /\ prog = "chain" /\ deep.throws /\ depth = 3
  /\ outcome = "ok"
  /\ Done(frames, 1) /\ frames[1].exception = Some(deep.e)
  /\ Len(stack) = 1 /\ Top.f = 2
  /\ frames[2].st = "run" /\ frames[2].inflight = Some(deep.e)

\* the activations that execute the body of frame f
BodyActivations(f) ==
  {i \in 1..Len(stack) : stack[i].f = f /\ stack[i].mode = "body"}

C24_NoNestedResume ==
  /\ Len(stack) <= 1
  /\ \A i \in 1..Len(stack) :
       stack[i].mode = "loop" => frames[stack[i].f].st /= "run"

\* C25: a frame suspended at a co_await goes on only when the frame it
\* awaits has completed, and the value it then reads is the value that
\* frame returned, also when the awaited body yields before it returns
\* and the driver keeps resuming the top-level handle.
C25_AwaitResumedByCompletion ==
  [][\A a \in Frames :
       (frames[a].st = "await" /\ frames'[a].st = "run" /\ outcome' = "ok") =>
         LET b == frames[a].sub
         IN /\ Done(frames', b)
            /\ frames'[b].exception = None =>
                 /\ frames'[b].value /= None
                 /\ frames'[a].local = frames'[b].value[1]]_vars

\* C26: the continuation reference is never dangling: previous of a live
\* frame that has not completed is noop_coroutine() or a live frame, a
\* frame waiting at a co_await is alive and is the previous of the live
\* frame it awaits, and when a completing frame's final awaiter consults
\* previous, previous is noop_coroutine() or a frame that is alive.
C26_NoDanglingContinuation ==
  /\ [](\A f \in Frames :
          (frames[f].alive /\ ~Done(frames, f)) =>
            \/ frames[f].previous = Noop
            \/ /\ frames[f].previous \in Frames
               /\ frames[frames[f].previous].alive)
  /\ [](\A a \in Frames :
          (frames[a].st = "await" /\ outcome = "ok") =>
            /\ frames[a].alive
            /\ frames[a].sub \in Frames
            /\ frames[frames[a].sub].alive
            /\ frames[frames[a].sub].previous = a)
  /\ [][(Completes /\ FinalAwaiter(prog) = "previous") =>
          \/ frames[Cur].previous = Noop
          \/ /\ frames[Cur].previous \in Frames
             /\ frames[frames[Cur].previous].alive
             /\ frames'[frames[Cur].previous].alive]_vars

C26_Witness ==
  /\ prog = "chain" /\ ~deep.throws /\ depth = 4
  /\ Len(stack) = 1 /\ Top.f = 3 /\ frames[3].st = "run"
  /\ Done(frames, 2) /\ frames[2].previous = 3 /\ frames[2].alive
  /\ frames[3].alive
  /\ ~frames[1].alive /\ frames[1].destroys = 1

\* frame f was allocated and has been destroyed
Destroyed(f) == frames[f].st /= "none" /\ ~frames[f].alive

\* C27: a frame created and awaited in a caller's body is destroyed once,
\* when it is done and its caller (the frame above it) has been resumed
\* from the co_await and has read its result; a destroyed frame is in no
\* activation and no Task of a body refers to it; the frame read by
\* await_resume, the frame the loop of WorldTask::CalleeAwaiter queries and
\* the frame main resumes are alive, and no resume() is undefined.
C27_DestroyedAfterRead ==
  /\ [](\A f \in Frames :
          Destroyed(f) =>
            /\ Done(frames, f)
            /\ frames[f].destroys = 1
            /\ \A i \in 1..Len(stack) : stack[i].f /= f
            /\ \A g \in Frames : frames[g].sub /= f
            /\ f < depth
            /\ frames[f + 1].wakes = 1
            /\ frames[f + 1].st \in {"final", "run"})
  /\ [](outcome /= "ub" /\ frames[TopFrame].alive)
  /\ []((stack /= << >> /\ Top.mode = "loop" /\ outcome = "ok") =>
          /\ frames[Top.f].sub \in Frames
          /\ frames[frames[Top.f].sub].alive)
  /\ [][\A a \in Frames :
          (frames[a].st = "await" /\ frames'[a].st = "run") =>
            /\ frames[a].sub \in Frames
            /\ frames'[frames[a].sub].alive]_vars

C27_Witness ==
  /\ prog = "hello" /\ resumes = 3
  /\ stack = << >> /\ outcome = "ok"
  /\ Done(frames, 2) /\ frames[2].alive /\ frames[2].wakes = 1
  /\ Destroyed(1) /\ Done(frames, 1) /\ frames[1].destroys = 1
  /\ frames[2].sub = NullHandle

\* C28: in the hello program the one co_await runs world through its
\* yields 1 and 2 to its return of 42 inside the first top-level resume():
\* world is never suspended at a yield when main has control, main sees
\* the values 42, 100 and 200 of hello and never 1 or 2, the co_await
\* evaluates to 42, and hello is done, with 200, after exactly three
\* resumes.
C28_LoopAwaitRunsCalleeToCompletion ==
  prog = "hello" =>
    /\ resumes <= 3
    /\ frames[2].awaits <= 1
    /\ resumes < 3 => ~Done(frames, 2)
    /\ (stack = << >>) =>
         /\ outcome = "ok"
         /\ frames[1].st \in {"none", "final"}
         /\ Task_value(frames, 2) \notin {Some(1), Some(2)}
         /\ resumes >= 1 =>
              /\ frames[1].value = Some(42)
              /\ frames[2].local = 42
              /\ frames[2].wakes = 1
    /\ AfterResume(1) => Task_value(frames, 2) = Some(42) /\ ~Done(frames, 2)
    /\ AfterResume(2) => Task_value(frames, 2) = Some(100) /\ ~Done(frames, 2)
    /\ AfterResume(3) => Task_value(frames, 2) = Some(200) /\ Done(frames, 2)

C28_Witness ==
  /\ prog = "hello" /\ AfterResume(3) /\ outcome = "ok"
  /\ Done(frames, 2) /\ Task_value(frames, 2) = Some(200)
  /\ frames[2].local = 42 /\ frames[2].awaits = 1
  /\ frames[1].value = Some(42)

\* C29: co_yield v stores v without completing the frame: after the step
\* the frame is not done, its value is v, its previous is as before, and
\* the frame is suspended at the yield, its activation returned to whoever
\* resumed it, so that it runs no further until it is resumed again.
C29_YieldSuspendsUntilResumed ==
  [][(Running /\ frames[Cur].inflight = None /\ Instr.op = "yield") =>
       LET f == Cur
           v == IF Instr.kind = "local" THEN frames[f].local ELSE Instr.v
       IN /\ ~Done(frames', f)
          /\ Task_value(frames', f) = Some(v)
          /\ frames'[f].previous = frames[f].previous
          /\ frames'[f].st = "yield"
          /\ stack' = Pop]_vars

\* C30: a frame that is not running is suspended at its initial suspend
\* point, at a co_await of a Task or at its final suspend point, nowhere
\* else.
C30_SuspendedAtThreePoints ==
  \A f \in Frames :
    frames[f].st \in {"none", "run", "init", "await", "final"}

----------------------------------------------------------------------------
(* Claims on the operations of the Loop *)

\* C31: run() takes entries from the timer heap only in step 2, with
\* nothing in the ready queue but the entries it has just moved; every
\* entry it moves has expired (expiry <= now); when step 2 ends no entry
\* left in the heap has expired; and a frame that waits in the heap is in
\* no ready entry, so it is not resumed before its expiry.
C31_DueTimersMoved ==
  /\ [](\A i \in 1..Len(fired) : fired[i].expire_time <= now)
  /\ [](\A k \in 1..Len(timers) :
          /\ lframes[timers[k].handle] = "timed"
          /\ \A i \in 1..Len(ready_tasks) :
               ready_tasks[i].handle /= timers[k].handle)
  /\ [][(runPc /= "idle" /\ Len(timers') < Len(timers)) =>
          /\ runPc = "timers"
          /\ HandlesOf(ready_tasks) = HandlesOf(fired)
          /\ priority_queue_top(timers).expire_time <= now
          /\ HandlesOf(ready_tasks') =
               Append(HandlesOf(ready_tasks), priority_queue_top(timers).handle)
          /\ Len(timers') = Len(timers) - 1]_vars
  /\ [][(runPc = "timers" /\ runPc' /= "timers") =>
          \A k \in 1..Len(timers) : timers[k].expire_time > now]_vars

C31_Witness ==
  /\ JustFired
  /\ now = 0
  /\ Len(fired) = 2
  /\ timers /= << >>
  /\ \A k \in 1..Len(timers) : timers[k].expire_time = 1

\* the earliest expiry among the entries of a non-empty timer heap
EarliestExpiry(h) ==
  CHOOSE t \in {h[k].expire_time : k \in 1..Len(h)} :
    \A k \in 1..Len(h) : t <= h[k].expire_time

\* run() waits: nothing is ready and no timer entry is due
Waits ==
  /\ runPc = "timers"
  /\ ready_tasks = << >>
  /\ timers /= << >>
  /\ ~TimerDue(timers, now)

\* C32: the idle time computed from a non-empty timer heap is never
\* negative, is the earliest expiry of all entries minus the current time
\* when that expiry is after the current time and 0 otherwise; when run()
\* waits it is positive and is that difference.
C32_IdleTimeClamped ==
  timers /= << >> =>
    /\ IdleTime(timers, now) >= 0
    /\ IdleTime(timers, now) =
         IF EarliestExpiry(timers) > now
         THEN EarliestExpiry(timers) - now ELSE 0
    /\ Waits =>
         /\ IdleTime(timers, now) > 0
         /\ IdleTime(timers, now) = EarliestExpiry(timers) - now

C32_Witness ==
  /\ Waits
  /\ now = 0
  /\ Len(timers) >= 2
  /\ IdleTime(timers, now) = 1

\* the entries of a container, as a set
EntriesOf(q) == {q[k] : k \in 1..Len(q)}

\* the driver calls add_task or add_timer on the Loop in this step
DriverSchedules == runPc = "idle" /\ tickets' = tickets + 1

\* C33: add_task(f) called by the driver puts f at the back of the ready
\* queue and leaves the timer heap as it is; add_timer(t, f) adds the one
\* entry (t, f) to the timer heap and leaves the ready queue as it is;
\* both leave every frame alive, owned and not completed as before, and
\* neither resumes a frame.
C33_ScheduleOnlyQueues ==
  [][DriverSchedules =>
       \E f \in LoopFrameIds :
         /\ lframes[f] = "new"
         /\ \A g \in LoopFrameIds \ {f} : lframes'[g] = lframes[g]
         /\ \/ /\ HandlesOf(ready_tasks') = Append(HandlesOf(ready_tasks), f)
               /\ SubSeq(ready_tasks', 1, Len(ready_tasks)) = ready_tasks
               /\ timers' = timers
               /\ lframes'[f] = "queued"
            \/ /\ ready_tasks' = ready_tasks
               /\ \E t \in Times :
                    EntriesOf(timers') = EntriesOf(timers) \cup
                      {[expire_time |-> t, handle |-> f, seq |-> tickets]}
               /\ Len(timers') = Len(timers) + 1
               /\ lframes'[f] = "timed"
         /\ heap' = heap /\ tasks' = tasks /\ frames' = frames
         /\ resumedLog' = resumedLog /\ resched' = resched
         /\ runPc' = "idle" /\ now' = now]_vars

C33_Witness ==
  /\ runPc = "idle"
  /\ HandlesOf(ready_tasks) = <<1, 3>>
  /\ Len(timers) = 1 /\ timers[1].handle = 2 /\ timers[1].expire_time = 1

\* C34: the Loop owns no frame: in every state each frame handed to it is
\* alive, was never destroyed and is owned by its Task, whatever entries
\* have been pushed, popped, moved from the timer heap or destroyed with
\* the Loop; no step of the Loop changes a frame's allocation or a Task.
C34_LoopOwnsNoFrame ==
  /\ [](\A f \in LoopFrameIds :
          /\ heap[f].alive
          /\ heap[f].destroys = 0
          /\ tasks[f] = [life |-> "live", coroutine |-> f])
  /\ [][heap' = heap /\ tasks' = tasks]_vars

C34_Witness ==
  /\ runPc = "returned"
  /\ lframes[1] = "dropped"
  /\ lframes[2] = "done" /\ lframes[3] = "done"
  /\ resched = MaxReschedules
  /\ now = MaxTime
  /\ tickets > MaxLoopFrames + MaxReschedules
  /\ \A f \in LoopFrameIds : heap[f].alive

----------------------------------------------------------------------------
(* Claims on misuse and on termination *)

\* C35: a co_await on a Task that is empty, or whose frame has been
\* destroyed, is rejected at once: the awaiting frame is not suspended and
\* goes on running in its activation, no previous is written, no frame is
\* resumed and the program stays in order.
C35_AwaitOfEmptyRejected ==
  [][(Awaits /\ (frames[Cur].sub = NullHandle
                  \/ ~frames[frames[Cur].sub].alive)) =>
       /\ outcome' = "ok"
       /\ frames'[Cur].st = "run"
       /\ stack' = stack
       /\ \A g \in Frames : frames'[g].previous = frames[g].previous]_vars

\* C36: main's loop "while the frame is not done, resume it" ends: when a
\* resume() has returned and the frame is not done, the frame is suspended
\* further on in its body than it was when resume() was called, and for
\* every body that does not throw the program comes to rest with main in
\* control and the top-level frame done.
C36_DriverLoopTerminates ==
  /\ []((stack = << >> /\ outcome = "ok" /\ resumes >= 1) =>
          \/ Done(frames, TopFrame)
          \/ frames[TopFrame].pc > frames[TopFrame].mark)
  /\ <>[](deep.throws \/ (stack = << >> /\ outcome = "ok"
                            /\ Done(frames, TopFrame)))

C36_Witness ==
  /\ prog = "hello" /\ AfterResume(2) /\ outcome = "ok"
  /\ ~Done(frames, 2)
  /\ frames[2].mark = 4 /\ frames[2].pc = 5
  /\ frames[2].st = "yield"

====
